---- MODULE Spec2Model ----
(***************************************************************************)
(* ResQ (src/app.py): the alert registry, the aggregation of incident      *)
(* frames into alerts, the asynchronous notification dispatch and the      *)
(* deferred cancellation check.                                            *)
(*                                                                         *)
(* Scheduling.  detect_and_alert, cancel_alert and get_alert_status are    *)
(* `async def` endpoints whose bodies touch active_alerts without an       *)
(* await in between, so each of them runs to completion on the event loop  *)
(* and is one action here.  trigger_emergency_alerts runs in its own       *)
(* threading.Thread and check_alert_cancellation in a threading.Timer      *)
(* thread; they interleave with everything.  The dispatch thread reads     *)
(* only fields that nobody writes after line 213 and is one action, taken  *)
(* when it ends.  The timer thread reads the registry twice, at line 288   *)
(* and at line 289, and the event loop may run a whole handler in between: *)
(* it is two actions.                                                      *)
(*                                                                         *)
(* Python objects.  active_alerts maps an id to a dict OBJECT.  The        *)
(* dispatch thread is handed the object itself, which outlives its removal *)
(* from the registry; so the model keeps the keys (active_alerts) apart    *)
(* from the objects (alert_data).                                          *)
(*                                                                         *)
(* Time is in seconds, datetime.now() is the variable now, and it never    *)
(* runs backwards.  Confidences are in tenths.  What an endpoint returns   *)
(* is an operator of the state it is called in (CancelResponse,            *)
(* StatusResponse), not a variable.                                        *)
(*                                                                         *)
(* Spec is the service: a frame is classified and folded into the registry *)
(* in one step, process_detection.  ClassifySpec takes the classifier of   *)
(* lines 148-182 on its own, over every list of boxes up to MaxBoxes;      *)
(* there the frame in hand is the variable boxes and the two locals the    *)
(* classifier sets are the variable frame_result.                          *)
(***************************************************************************)
EXTENDS Integers, Sequences, FiniteSets

\* ---- program constants --------------------------------------------------
CRASH_CONF_THRESHOLD == 5
MIN_CRASH_DETECTIONS_REQUIRED == 3
MAX_ALERT_PENDING_TIME_SECONDS == 60

\* ---- bounds -------------------------------------------------------------
MaxAlerts == 2
MaxFrames == 3
MaxTime == 60
TickStep == 30
MaxLagSteps == 2
MaxBoxes == 3

AlertIds == 1..MaxAlerts

\* The detection lists a frame is drawn from, one or more for every way
\* through lines 156-174: no box, a box of another class, a crash box at the
\* threshold, one crash box above it (alone, or beside a box that is filtered
\* out), two crash boxes above it.
Hit == [cls |-> 0, conf |-> CRASH_CONF_THRESHOLD + 1]
Low == [cls |-> 0, conf |-> CRASH_CONF_THRESHOLD]
Other == [cls |-> 1, conf |-> CRASH_CONF_THRESHOLD + 1]
DetectionLists ==
    {<<>>, <<Other>>, <<Low>>, <<Hit>>, <<Low, Hit>>, <<Hit, Other>>, <<Hit, Hit>>}

\* the boxes a frame can hold: of the crash class or of another one, below,
\* at and above the threshold
Boxes == [cls : {0, 1},
          conf : {CRASH_CONF_THRESHOLD - 1, CRASH_CONF_THRESHOLD,
                  CRASH_CONF_THRESHOLD + 1}]

RECURSIVE BoxLists(_)
BoxLists(n) ==
    IF n = 0 THEN {<<>>}
    ELSE BoxLists(n - 1) \cup {Append(l, b) : l \in BoxLists(n - 1), b \in Boxes}

\* every r.boxes of at most MaxBoxes boxes
Frames == BoxLists(MaxBoxes)

\* how long after line 143 the loops of lines 188 and 231 may run
Lags == {k * TickStep : k \in 0..MaxLagSteps}

\* the values MIN_CRASH_DETECTIONS_REQUIRED is configured to, up to the
\* one of line 30
MinRequiredValues == 0..MIN_CRASH_DETECTIONS_REQUIRED

VARIABLES
    now,                 \* datetime.now()
    min_required,        \* the configured MIN_CRASH_DETECTIONS_REQUIRED
    active_alerts,       \* the keys of the dict active_alerts
    alert_data,          \* the dict object of every id issued so far
    next_id,             \* the next uuid4 to be issued
    thread,              \* the trigger_emergency_alerts thread of each id
    threads_started,     \* how many such threads were started for each id
    timer,               \* the threading.Timer of each id
    cancelled_in_window, \* a cancel request for the id, in the registry, came before its window elapsed
    cancel_not_found,    \* a cancel request for the id, issued but gone from the registry, was answered 404
    boxes,               \* r.boxes of the frame in hand
    frame_result         \* crash_detected_in_frame and severity of the frame in hand

vars == <<now, min_required, active_alerts, alert_data, next_id, thread,
          threads_started, timer, cancelled_in_window, cancel_not_found,
          boxes, frame_result>>

NoAlert == [timestamp |-> 0, cancelled |-> FALSE, detection_count |-> 0,
            severity |-> "none", alert_sent |-> FALSE]
\* lines 148-150, before the classifier has run
NoResult == [crash_detected |-> FALSE, severity |-> "unclassified"]
NoTimer == [state |-> "none", due |-> 0, outcome |-> "none", runs |-> 0]

Issued == 1..(next_id - 1)

RECURSIVE SumCounts(_, _)
SumCounts(data, ids) ==
    IF ids = {} THEN 0
    ELSE LET a == CHOOSE x \in ids : TRUE
         IN data[a].detection_count + SumCounts(data, ids \ {a})

\* the incident frames processed so far: each one created an alert with
\* detection_count 1 or added 1 to a detection_count
IncidentFrames == SumCounts(alert_data, AlertIds)

\* ---- process_detection, lines 148-182: the frame classifier ------------
\* line 162 with >= for >
IsCrashBox_AtThreshold(box) == box.cls = 0 /\ box.conf >= CRASH_CONF_THRESHOLD

IsCrashBox(box) == box.cls = 0 /\ box.conf > CRASH_CONF_THRESHOLD

CountCrashBoxes(dets) == Cardinality({i \in 1..Len(dets) : IsCrashBox(dets[i])})

Classify(dets) ==
    IF (\E i \in 1..Len(dets) : dets[i].cls = 0) /\ CountCrashBoxes(dets) > 0
    THEN [crash_detected |-> TRUE,
          severity |-> IF CountCrashBoxes(dets) >= 2 THEN "severe"
                       ELSE IF CountCrashBoxes(dets) = 1 THEN "moderate"
                       ELSE "minor"]
    ELSE [crash_detected |-> FALSE, severity |-> "none"]

\* ---- the predicate of lines 189, 358 and 379 ---------------------------
IsActive(data, t) ==
    ~data.cancelled /\ t - data.timestamp < MAX_ALERT_PENDING_TIME_SECONDS

\* the test of line 189 with `not` dropped from the cancelled flag
FindActive_Inverted(keys, data, t) ==
    IF \E a \in keys : data[a].cancelled
                        /\ t - data[a].timestamp < MAX_ALERT_PENDING_TIME_SECONDS
    THEN CHOOSE a \in keys : data[a].cancelled
                             /\ t - data[a].timestamp < MAX_ALERT_PENDING_TIME_SECONDS
    ELSE 0

\* lines 188-191 taking the first alert of the dict, whatever its state
FindActive_AnyAlert(keys, data, t) ==
    IF keys # {} THEN CHOOSE a \in keys : TRUE ELSE 0

\* the test of line 189 without the cancelled flag
FindActive_IgnoresCancelled(keys, data, t) ==
    IF \E a \in keys : t - data[a].timestamp < MAX_ALERT_PENDING_TIME_SECONDS
    THEN CHOOSE a \in keys : t - data[a].timestamp < MAX_ALERT_PENDING_TIME_SECONDS
    ELSE 0

\* lines 187-191: the id of an active alert, 0 for None
FindActive(keys, data, t) ==
    IF \E a \in keys : IsActive(data[a], t)
    THEN CHOOSE a \in keys : IsActive(data[a], t)
    ELSE 0

\* line 197 without `and not ...get("alert_sent")`
EscalatesExisting_NoSentCheck(count, sent, minreq) == count >= minreq

\* line 197 with > for >=
EscalatesExisting_OffByOne(count, sent, minreq) == count > minreq /\ ~sent

\* line 197: the escalation edge on an existing alert
EscalatesExisting(count, sent, minreq) == count >= minreq /\ ~sent

\* lines 216-218 left out: a new alert is never escalated at once
EscalatesNew_Never(minreq) == FALSE

\* line 216: the escalation edge on a new alert
EscalatesNew(minreq) == minreq = 1

\* line 209 with 0 for 1
NewAlert_CountZero(current_time, severity) ==
    [timestamp |-> current_time, cancelled |-> FALSE, detection_count |-> 0,
     severity |-> severity, alert_sent |-> FALSE]

\* lines 204-213: the dict of a new alert, before line 218
NewAlert(current_time, severity) ==
    [timestamp |-> current_time, cancelled |-> FALSE, detection_count |-> 1,
     severity |-> severity, alert_sent |-> FALSE]

\* line 232 without the cancelled flag
AlertsToRemove_InclCancelled(keys, data, t) ==
    {a \in keys : t - data[a].timestamp >= MAX_ALERT_PENDING_TIME_SECONDS}

\* line 232 removing every alert that is not active, cancelled ones too
AlertsToRemove_Inactive(keys, data, t) ==
    {a \in keys : ~IsActive(data[a], t)}

\* line 232 with > for >=
AlertsToRemove_StrictlyOlder(keys, data, t) ==
    {a \in keys : ~data[a].cancelled
                  /\ t - data[a].timestamp > MAX_ALERT_PENDING_TIME_SECONDS}

\* lines 231-233: what the no-incident path removes
AlertsToRemove(keys, data, t) ==
    {a \in keys : ~data[a].cancelled
                  /\ t - data[a].timestamp >= MAX_ALERT_PENDING_TIME_SECONDS}

StartThread(a) ==
    /\ thread' = [thread EXCEPT ![a] = "started"]
    /\ threads_started' = [threads_started EXCEPT ![a] = @ + 1]

\* the service as it starts: an empty registry
RegistryInit ==
    /\ now = 0
    /\ min_required \in MinRequiredValues
    /\ active_alerts = {}
    /\ alert_data = [a \in AlertIds |-> NoAlert]
    /\ next_id = 1
    /\ thread = [a \in AlertIds |-> "none"]
    /\ threads_started = [a \in AlertIds |-> 0]
    /\ timer = [a \in AlertIds |-> NoTimer]
    /\ cancelled_in_window = [a \in AlertIds |-> FALSE]
    /\ cancel_not_found = [a \in AlertIds |-> FALSE]

Init ==
    /\ RegistryInit
    /\ boxes = <<>>
    /\ frame_result = NoResult

\* the wall clock
Tick ==
    /\ now < MaxTime
    /\ now' = now + TickStep
    /\ UNCHANGED <<min_required, active_alerts, alert_data, next_id, thread,
                   threads_started, timer, cancelled_in_window, cancel_not_found,
                   boxes, frame_result>>

\* lines 193-200 storing the frame's severity in the alert as well
RecordEvidence_OverwritesSeverity(a, frame) ==
    /\ LET count == alert_data[a].detection_count + 1
           fire == EscalatesExisting(count, alert_data[a].alert_sent, min_required)
       IN /\ alert_data' = [alert_data EXCEPT
                               ![a].detection_count = count,
                               ![a].severity = frame.severity,
                               ![a].alert_sent = IF fire THEN TRUE ELSE @]
          /\ IF fire THEN StartThread(a)
                     ELSE UNCHANGED <<thread, threads_started>>
    /\ UNCHANGED <<active_alerts, next_id>>

\* lines 193-200: the frame is folded into the active alert
RecordEvidence(a, frame) ==
    /\ LET count == alert_data[a].detection_count + 1
           fire == EscalatesExisting(count, alert_data[a].alert_sent, min_required)
       IN /\ alert_data' = [alert_data EXCEPT
                               ![a].detection_count = count,
                               ![a].alert_sent = IF fire THEN TRUE ELSE @]
          /\ IF fire THEN StartThread(a)
                     ELSE UNCHANGED <<thread, threads_started>>
    /\ UNCHANGED <<active_alerts, next_id>>

\* lines 201-218: a new alert is created, stamped with current_time
CreateAlert(frame, current_time) ==
    /\ next_id \in AlertIds
    /\ LET a == next_id
           fire == EscalatesNew(min_required)
       IN /\ active_alerts' = active_alerts \cup {a}
          /\ alert_data' = [alert_data EXCEPT ![a] =
                 [NewAlert(current_time, frame.severity) EXCEPT !.alert_sent = fire]]
          /\ next_id' = next_id + 1
          /\ IF fire THEN StartThread(a)
                     ELSE UNCHANGED <<thread, threads_started>>

\* lines 227-247: the no-incident path
SweepExpired ==
    /\ active_alerts' = active_alerts \ AlertsToRemove(active_alerts, alert_data, now)
    /\ UNCHANGED <<alert_data, next_id, thread, threads_started>>

\* lines 142-247.  current_time is read at line 143, before the inference;
\* the loops of lines 188 and 231 read datetime.now() afresh, lag later.
\* Only the creation of an alert uses current_time.
process_detection(dets, lag) ==
    /\ now - lag >= 0
    /\ Classify(dets).crash_detected => IncidentFrames < MaxFrames
    /\ lag = 0 \/ (Classify(dets).crash_detected
                   /\ FindActive(active_alerts, alert_data, now) = 0)
    /\ LET frame == Classify(dets)
           active_alert_id == FindActive(active_alerts, alert_data, now)
       IN IF frame.crash_detected
          THEN IF active_alert_id # 0
               THEN RecordEvidence(active_alert_id, frame)
               ELSE CreateAlert(frame, now - lag)
          ELSE SweepExpired
    /\ UNCHANGED <<now, min_required, timer, cancelled_in_window, cancel_not_found,
                   boxes, frame_result>>

\* what the SMS gateway does with the request of line 100: no key is
\* configured, the request times out, it fails otherwise (transport error,
\* 4xx or 5xx at line 101), or it is answered 2xx with a JSON object whose
\* "return" is truthy or not, or with JSON that is not an object
SmsReplies == {"no_api_key", "timeout", "request_error",
               "return_true", "return_false", "not_an_object"}

\* what happens to the mail: no credentials are configured, the recipient
\* is not a legal header value, the server refuses the login, cannot be
\* reached, fails otherwise, or accepts the message
EmailReplies == {"no_credentials", "bad_recipient", "auth_error",
                 "connect_error", "other_error", "sent"}

\* lines 80-113: "True", "False", or "raised" when an exception leaves the
\* function.  Lines 109-112 catch requests' exceptions only; line 103 calls
\* .get on whatever response.json() returned.
send_sms_alert(reply) ==
    CASE reply = "no_api_key"    -> "False"
      [] reply = "timeout"       -> "False"
      [] reply = "request_error" -> "False"
      [] reply = "return_true"   -> "True"
      [] reply = "return_false"  -> "False"
      [] reply = "not_an_object" -> "raised"

\* lines 116-140: as above.  Line 125 sets the To header outside the try of
\* line 127; lines 134-139 catch everything raised inside it.
send_email_alert(reply) ==
    CASE reply = "no_credentials" -> "False"
      [] reply = "bad_recipient"  -> "raised"
      [] reply = "auth_error"     -> "False"
      [] reply = "connect_error"  -> "False"
      [] reply = "other_error"    -> "False"
      [] reply = "sent"           -> "True"

\* what lines 277 and 278 can come back with
SmsResults == {send_sms_alert(reply) : reply \in SmsReplies}
EmailResults == {send_email_alert(reply) : reply \in EmailReplies}

\* lines 280-285: the timer is started when a channel reported success
SchedulesTimer(sms_sent, email_sent) == sms_sent \/ email_sent

\* line 283 with an interval of zero
TimerDue_Immediate(t) == t

\* line 283: threading.Timer(MAX_ALERT_PENDING_TIME_SECONDS, ...)
TimerDue(t) == t + MAX_ALERT_PENDING_TIME_SECONDS

\* lines 284-285 putting alert_sent back to False when nothing was sent
trigger_emergency_alerts_RollsBack(a, sms_sent, email_sent) ==
    /\ thread[a] = "started"
    /\ IF sms_sent = "True" \/ email_sent = "True"
       THEN /\ thread' = [thread EXCEPT ![a] = "dispatched"]
            /\ timer' = [timer EXCEPT ![a].state = "scheduled",
                                      ![a].due = TimerDue(now)]
            /\ UNCHANGED alert_data
       ELSE /\ thread' = [thread EXCEPT ![a] = "failed"]
            /\ alert_data' = [alert_data EXCEPT ![a].alert_sent = FALSE]
            /\ UNCHANGED timer
    /\ UNCHANGED <<now, min_required, active_alerts, next_id,
                   threads_started, cancelled_in_window, cancel_not_found,
                   boxes, frame_result>>

\* line 253: str.upper on the stored severity
Upper(severity) ==
    CASE severity = "none"     -> "NONE"
      [] severity = "minor"    -> "MINOR"
      [] severity = "moderate" -> "MODERATE"
      [] severity = "severe"   -> "SEVERE"

\* lines 251-274: what the dispatch thread puts into its two messages, read
\* from the dict it was handed (the contact and the image name, written at
\* lines 206-210 only, are left out)
DispatchMessage(alert_id, data) ==
    [alert_id |-> alert_id,
     severity |-> Upper(data.severity),
     timestamp |-> data.timestamp]

\* lines 249-285, the body of the dispatch thread.  It builds its messages
\* from the dict it was handed (fields that nothing writes after creation),
\* calls channel A at line 277 and channel B at line 278, and starts the
\* timer at line 283.  An exception that leaves a channel function leaves
\* this one too and ends the thread where it stands: at line 277, before
\* channel B is called, or at line 278.  A thread that ended without
\* starting the timer leaves no trace in the program ("failed"), whichever
\* way it ended.  Nothing shared is touched before line 283, so the body is
\* one step, taken when the thread ends.
trigger_emergency_alerts(a, sms_sent, email_sent) ==
    /\ thread[a] = "started"
    /\ LET schedules == /\ sms_sent # "raised"
                        /\ email_sent # "raised"
                        /\ SchedulesTimer(sms_sent = "True", email_sent = "True")
       IN /\ thread' = [thread EXCEPT ![a] =
                 IF schedules THEN "dispatched" ELSE "failed"]
          /\ IF schedules
             THEN timer' = [timer EXCEPT ![a].state = "scheduled",
                                         ![a].due = TimerDue(now)]
             ELSE UNCHANGED timer
    /\ UNCHANGED <<now, min_required, active_alerts, alert_data, next_id,
                   threads_started, cancelled_in_window, cancel_not_found,
                   boxes, frame_result>>

\* lines 289-293: active_alerts[alert_id]["cancelled"] is read and the
\* outcome logged; the subscript raises KeyError, and nothing is logged, if
\* the id has left the registry since line 288
ReadCancelled(keys, data, a) ==
    IF a \notin keys THEN "raised"
    ELSE IF ~data[a].cancelled THEN "confirmed_incident" ELSE "cancelled_by_user"

\* lines 288, 297-298: the membership test; "present" is the position
\* between line 288 and line 289
TimerOutcome(keys, data, a) ==
    IF a \in keys THEN "present" ELSE "not_found"

\* lines 287-288 and 297-298, run by the timer thread once the interval has
\* passed: the membership test, and the log for an absent id
check_alert_cancellation(a) ==
    /\ timer[a].state = "scheduled"
    /\ now >= timer[a].due
    /\ LET found == TimerOutcome(active_alerts, alert_data, a)
       IN timer' = [timer EXCEPT
                       ![a].state = IF found = "present" THEN "present" ELSE "fired",
                       ![a].due = 0,
                       ![a].outcome = IF found = "present" THEN "none" ELSE found,
                       ![a].runs = @ + 1]
    /\ UNCHANGED <<now, min_required, active_alerts, alert_data, next_id, thread,
                   threads_started, cancelled_in_window, cancel_not_found,
                   boxes, frame_result>>

\* lines 289-293, the rest of the timer thread
check_alert_cancellation_read(a) ==
    /\ timer[a].state = "present"
    /\ timer' = [timer EXCEPT
                    ![a].state = "fired",
                    ![a].outcome = ReadCancelled(active_alerts, alert_data, a)]
    /\ UNCHANGED <<now, min_required, active_alerts, alert_data, next_id, thread,
                   threads_started, cancelled_in_window, cancel_not_found,
                   boxes, frame_result>>

\* lines 341-349 answering absent ids like cancelled ones
CancelResponse_NoMembershipTest(keys, data, alert_id) ==
    IF alert_id \in keys /\ ~data[alert_id].cancelled
    THEN [status |-> 200, detail |-> "cancelled"]
    ELSE [status |-> 200, detail |-> "already_cancelled"]

\* lines 341-349: what cancel_alert returns
CancelResponse(keys, data, alert_id) ==
    IF alert_id \in keys
    THEN IF ~data[alert_id].cancelled
         THEN [status |-> 200, detail |-> "cancelled"]
         ELSE [status |-> 200, detail |-> "already_cancelled"]
    ELSE [status |-> 404, detail |-> "not_found"]

\* line 343 writing `not cancelled` for True
AfterCancel_Toggles(keys, data, alert_id) ==
    IF alert_id \in keys
    THEN [data EXCEPT ![alert_id].cancelled = ~@]
    ELSE data

\* lines 341-343: the alerts as cancel_alert leaves them
AfterCancel(keys, data, alert_id) ==
    IF alert_id \in keys /\ ~data[alert_id].cancelled
    THEN [data EXCEPT ![alert_id].cancelled = TRUE]
    ELSE data

\* lines 339-349
cancel_alert(alert_id) ==
    /\ alert_data' = AfterCancel(active_alerts, alert_data, alert_id)
    /\ cancelled_in_window' = [cancelled_in_window EXCEPT ![alert_id] =
           @ \/ (/\ alert_id \in active_alerts
                 /\ now < alert_data[alert_id].timestamp + MAX_ALERT_PENDING_TIME_SECONDS)]
    /\ cancel_not_found' = [cancel_not_found EXCEPT ![alert_id] =
           @ \/ (/\ alert_id \in Issued
                 /\ CancelResponse(active_alerts, alert_data, alert_id).status = 404)]
    /\ UNCHANGED <<now, min_required, active_alerts, next_id, thread,
                   threads_started, timer, boxes, frame_result>>

\* lines 353-370: what get_alert_status returns
StatusResponse(keys, data, alert_id, t) ==
    IF alert_id \in keys
    THEN [status |-> 200, active |-> IsActive(data[alert_id], t),
          cancelled |-> data[alert_id].cancelled,
          alert_sent |-> data[alert_id].alert_sent,
          severity |-> data[alert_id].severity,
          detection_count |-> data[alert_id].detection_count]
    ELSE [status |-> 404]

\* lines 351-370: answers with StatusResponse, writes nothing
get_alert_status(alert_id) ==
    /\ StatusResponse(active_alerts, alert_data, alert_id, now).status \in {200, 404}
    /\ UNCHANGED vars

Next ==
    \/ Tick
    \/ \E dets \in DetectionLists, lag \in Lags : process_detection(dets, lag)
    \/ \E a \in AlertIds, sms_sent \in SmsResults, email_sent \in EmailResults :
           trigger_emergency_alerts(a, sms_sent, email_sent)
    \/ \E a \in AlertIds : check_alert_cancellation(a)
    \/ \E a \in AlertIds : check_alert_cancellation_read(a)
    \/ \E a \in AlertIds : cancel_alert(a)
    \/ \E a \in AlertIds : get_alert_status(a)

Spec == Init /\ [][Next]_vars

\* the clock advances, and a threading.Timer thread runs its function once
\* its interval has passed
FairSpec ==
    /\ Spec
    /\ WF_vars(Tick)
    /\ \A a \in AlertIds : WF_vars(check_alert_cancellation(a))
    /\ \A a \in AlertIds : WF_vars(check_alert_cancellation_read(a))

\* ---- the classifier on its own -------------------------------------------
\* lines 148-182: the frame in hand is classified
ClassifyFrame ==
    /\ frame_result = NoResult
    /\ frame_result' = Classify(boxes)
    /\ UNCHANGED <<now, min_required, active_alerts, alert_data, next_id, thread,
                   threads_started, timer, cancelled_in_window, cancel_not_found,
                   boxes>>

\* lines 184-247: the classified frame goes through the alert logic, and
\* so does every later frame with the same boxes
SubmitFrame ==
    /\ frame_result # NoResult
    /\ process_detection(boxes, 0)

\* line 146: the model returns the boxes of a frame
ClassifyInit ==
    /\ RegistryInit
    /\ boxes \in Frames
    /\ frame_result = NoResult

ClassifyNext == ClassifyFrame \/ SubmitFrame

ClassifySpec == ClassifyInit /\ [][ClassifyNext]_vars

\* ---- properties ----------------------------------------------------------
Window(a) == alert_data[a].timestamp + MAX_ALERT_PENDING_TIME_SECONDS

ActiveNow == {a \in active_alerts : IsActive(alert_data[a], now)}

\* C1: for every alert id, alert_sent goes from false to true at most once
\* and at most one dispatch thread is ever started for the id: a step starts
\* a thread only while it sets alert_sent, and once alert_sent is true it
\* stays true and no further thread is started.
C1_NotifiedAtMostOnce ==
    [][\A a \in AlertIds :
          /\ threads_started'[a] <= 1
          /\ alert_data[a].alert_sent =>
                /\ alert_data'[a].alert_sent
                /\ threads_started'[a] = threads_started[a]
          /\ threads_started'[a] # threads_started[a] =>
                ~alert_data[a].alert_sent /\ alert_data'[a].alert_sent]_vars

\* an escalated alert that took a further incident frame after its escalation
C1_Witness ==
    \E a \in Issued :
        /\ alert_data[a].alert_sent
        /\ threads_started[a] = 1
        /\ alert_data[a].detection_count >= 3
        /\ alert_data[a].detection_count > min_required

\* C2: the registry never holds more than one alert with cancelled = false
\* and now - created_at < PENDING_WINDOW, and an alert is created only by a
\* step that starts with no such alert in the registry.
C2_AtMostOneActive ==
    /\ [](Cardinality(ActiveNow) <= 1)
    /\ [][next_id' # next_id => ActiveNow = {}]_vars

\* two alerts in the registry, the older one expired or cancelled, the
\* newer one active
C2_Witness ==
    /\ Cardinality(active_alerts) = 2
    /\ Cardinality(ActiveNow) = 1
    /\ \E a \in active_alerts : a \notin ActiveNow /\ ~alert_data[a].cancelled

\* C3: once cancelled is true, no step sets the alert's alert_sent and no
\* step starts a dispatch thread for it.
C3_CancelWins ==
    [][\A a \in AlertIds :
          alert_data[a].cancelled =>
              /\ alert_data'[a].alert_sent = alert_data[a].alert_sent
              /\ threads_started'[a] = threads_started[a]]_vars

\* an alert cancelled one frame short of the threshold, and an incident
\* frame that arrived within its window afterwards (it opened alert b)
C3_Witness ==
    \E a, b \in Issued :
        /\ a < b
        /\ min_required >= 2
        /\ alert_data[a].cancelled
        /\ ~alert_data[a].alert_sent
        /\ threads_started[a] = 0
        /\ alert_data[a].detection_count + 1 >= min_required
        /\ alert_data[b].timestamp < Window(a)

\* C4: an incident frame never increments the detection_count of a
\* cancelled alert and never escalates it; an incident frame (the step that
\* changes a detection_count) that finds no active alert, the only open one
\* being cancelled, creates an alert under a new id with detection_count = 1
\* and touches no other alert.  With the
\* threshold at 3: two frames, a cancel, a third frame leave the cancelled
\* alert at 2 and a fresh alert at 1, nothing escalated.
C4_CancelledNeverReopens ==
    [][/\ \A a \in AlertIds :
             alert_data[a].cancelled =>
                 /\ alert_data'[a].detection_count = alert_data[a].detection_count
                 /\ alert_data'[a].alert_sent = alert_data[a].alert_sent
       /\ (/\ \E a \in AlertIds :
                 alert_data'[a].detection_count # alert_data[a].detection_count
           /\ ActiveNow = {}) =>
             /\ next_id' = next_id + 1
             /\ next_id \notin active_alerts
             /\ active_alerts' = active_alerts \cup {next_id}
             /\ alert_data'[next_id].detection_count = 1
             /\ ~alert_data'[next_id].cancelled
             /\ min_required = 3 => ~alert_data'[next_id].alert_sent
             /\ \A b \in AlertIds \ {next_id} : alert_data'[b] = alert_data[b]]_vars

\* threshold 3: alert 1 took two frames and was cancelled, the third frame,
\* inside the window of alert 1, opened alert 2
C4_Witness ==
    /\ min_required = 3
    /\ next_id = 3
    /\ alert_data[1].cancelled
    /\ alert_data[1].detection_count = 2
    /\ ~alert_data[1].alert_sent
    /\ alert_data[2].detection_count = 1
    /\ ~alert_data[2].alert_sent
    /\ threads_started = [a \in AlertIds |-> 0]
    /\ alert_data[2].timestamp < Window(1)

\* C5: a cancel request for an alert in the registry that arrives before
\* created_at + PENDING_WINDOW leaves cancelled = true, and when the timer
\* check of that alert has run, what it recorded is cancelled_by_user.
C5_CancelInWindow ==
    \A a \in AlertIds :
        cancelled_in_window[a] =>
            /\ alert_data[a].cancelled
            /\ timer[a].state = "fired" => timer[a].outcome = "cancelled_by_user"

\* an escalated alert, cancelled inside its window, whose timer check has
\* run; it outlived a sweep that removed another alert
C5_Witness ==
    \E a \in Issued :
        /\ cancelled_in_window[a]
        /\ alert_data[a].alert_sent
        /\ timer[a].state = "fired"
        /\ a \in active_alerts
        /\ \E b \in Issued : b \notin active_alerts

\* C6 as stated: the timer check is scheduled for every escalated alert, so
\* once the dispatch thread of an alert has ended its timer is scheduled or
\* has run; and the check never raises, whatever a sweep has removed.
C6_TimerForEveryEscalation ==
    \A a \in AlertIds :
        /\ thread[a] \in {"dispatched", "failed"} => timer[a].state # "none"
        /\ timer[a].outcome # "raised"

\* C7: with a threshold N >= 2, an alert below N detections is not notified
\* and has had no dispatch thread; from its N-th frame on it is notified and
\* has had exactly one, however many frames follow.
C7_EscalatesOnNthFrame ==
    min_required >= 2 =>
        \A a \in Issued :
            /\ alert_data[a].detection_count < min_required =>
                   ~alert_data[a].alert_sent /\ threads_started[a] = 0
            /\ alert_data[a].detection_count >= min_required =>
                   alert_data[a].alert_sent /\ threads_started[a] = 1

\* an alert that took a frame after the one that escalated it
C7_Witness ==
    \E a \in Issued :
        /\ min_required >= 2
        /\ alert_data[a].detection_count > min_required
        /\ alert_data[a].alert_sent
        /\ threads_started[a] = 1

\* C8 as stated: with a threshold <= 1 the frame that creates an alert
\* escalates it in the same call, so every alert there is has been
\* notified and has had its dispatch thread started.
C8_ImmediateEscalation ==
    min_required <= 1 =>
        \A a \in Issued :
            alert_data[a].alert_sent /\ threads_started[a] >= 1

\* C9 as stated: once now >= created_at + PENDING_WINDOW no step increments
\* the alert's detection_count and none sets its alert_sent.
C9_NothingAfterWindow ==
    [][\A a \in AlertIds :
          /\ (a \in Issued
              /\ alert_data'[a].detection_count # alert_data[a].detection_count)
                 => now < Window(a)
          /\ (~alert_data[a].alert_sent /\ alert_data'[a].alert_sent)
                 => now' < alert_data'[a].timestamp
                               + MAX_ALERT_PENDING_TIME_SECONDS]_vars

\* C10: cancel_alert for an id that is not in the registry, swept or never
\* issued, answers 404 and changes neither the registry nor any alert,
\* thread or timer.
C10_CancelAbsentIsNotFound ==
    /\ [](\A id \in AlertIds :
            id \notin active_alerts =>
                CancelResponse(active_alerts, alert_data, id) =
                    [status |-> 404, detail |-> "not_found"])
    /\ [][\A id \in AlertIds :
            (cancel_alert(id) /\ id \notin active_alerts) =>
                /\ id \in Issued => cancel_not_found'[id]
                /\ UNCHANGED <<active_alerts, alert_data, next_id, thread,
                               threads_started, timer>>]_vars

\* a cancel request for an alert that a sweep had removed was answered 404
C10_Witness ==
    \E id \in Issued :
        /\ cancel_not_found[id]
        /\ id \notin active_alerts
        /\ ~alert_data[id].cancelled
        /\ ~cancelled_in_window[id]

\* C11 as stated: cancel_alert and get_alert_status answer 404 for every id
\* that is unknown or whose window created_at + PENDING_WINDOW has elapsed,
\* and a cancel request for such an id changes no field of any alert.
C11_ExpiredIsNotFound ==
    /\ [](\A id \in AlertIds :
            (id \notin active_alerts \/ now >= Window(id)) =>
                /\ CancelResponse(active_alerts, alert_data, id).status = 404
                /\ StatusResponse(active_alerts, alert_data, id, now).status = 404)
    /\ [][\A id \in AlertIds :
            (cancel_alert(id) /\ (id \notin active_alerts \/ now >= Window(id)))
                => UNCHANGED alert_data]_vars

\* C12: for an alert in the registry, a cancel request leaves cancelled =
\* true and changes nothing else; it answers "cancelled" when the alert was
\* not cancelled before; a second request answers "already_cancelled" with
\* status 200 and leaves the alerts exactly as the first one left them; and
\* no cancel request touches the registry keys, a thread or a timer.
C12_CancelIdempotent ==
    /\ [](\A id \in active_alerts :
            LET once == AfterCancel(active_alerts, alert_data, id)
                twice == AfterCancel(active_alerts, once, id)
            IN /\ once = [alert_data EXCEPT ![id].cancelled = TRUE]
               /\ twice = once
               /\ ~alert_data[id].cancelled =>
                      CancelResponse(active_alerts, alert_data, id) =
                          [status |-> 200, detail |-> "cancelled"]
               /\ CancelResponse(active_alerts, once, id) =
                      [status |-> 200, detail |-> "already_cancelled"])
    /\ [][\A id \in AlertIds :
            cancel_alert(id) =>
                UNCHANGED <<active_alerts, next_id, thread, threads_started,
                            timer>>]_vars

\* a notified alert, its timer pending, that a cancel request has cancelled:
\* any further request is answered "already_cancelled"
C12_Witness ==
    \E a \in active_alerts :
        /\ alert_data[a].cancelled
        /\ alert_data[a].alert_sent
        /\ timer[a].state = "scheduled"
        /\ CancelResponse(active_alerts, alert_data, a).detail = "already_cancelled"

\* C13: a no-incident frame removes exactly the alerts with cancelled =
\* false and now - created_at >= PENDING_WINDOW, notified or not, so that a
\* status query for any of them is then answered 404; a step that removes
\* an alert removes exactly those, adds none, and changes no field of any
\* alert, no thread and no timer; hence no incident frame, cancel request,
\* dispatch or timer check removes one.
C13_SweepRemovesExactlyExpired ==
    /\ [](LET gone == AlertsToRemove(active_alerts, alert_data, now)
          IN /\ gone = {a \in active_alerts :
                           ~alert_data[a].cancelled /\ now >= Window(a)}
             /\ \A a \in gone :
                    StatusResponse(active_alerts \ gone, alert_data, a, now).status
                        = 404)
    /\ [][active_alerts \ active_alerts' # {} =>
             /\ active_alerts' =
                    active_alerts \ {a \in active_alerts :
                                        ~alert_data[a].cancelled /\ now >= Window(a)}
             /\ UNCHANGED <<now, alert_data, next_id, thread, threads_started,
                            timer>>]_vars

\* after a sweep: a pending alert whose window had elapsed is gone and
\* answers 404, a notified and cancelled alert as old as it is still there
C13_Witness ==
    \E a, c \in Issued :
        /\ a \notin active_alerts /\ ~alert_data[a].alert_sent
        /\ StatusResponse(active_alerts, alert_data, a, now).status = 404
        /\ c \in active_alerts
        /\ alert_data[c].cancelled /\ alert_data[c].alert_sent
        /\ now >= Window(c)

\* C14 as stated: an incident frame that matches the active alert leaves the
\* alert's stored severity equal to the severity of that frame.
C14_SeverityOverwritten ==
    [][\A dets \in DetectionLists :
          (/\ Classify(dets).crash_detected
           /\ ActiveNow # {}
           /\ process_detection(dets, 0)) =>
              \A a \in ActiveNow :
                  alert_data'[a].severity = Classify(dets).severity]_vars

\* C15: every alert that was created has detection_count >= 1; no step
\* decreases a detection_count or adds more than 1 to it; a new alert starts
\* at 1; a detection_count changes only on the alert that is active, and the
\* incident frame that escalates an existing alert adds exactly 1 to it; and
\* a step that changes a detection_count is an incident frame: it is not a
\* sweep, a cancel request, a dispatch or a timer check.
C15_EvidenceCount ==
    /\ [](\A a \in Issued : alert_data[a].detection_count >= 1)
    /\ [][/\ \A a \in Issued :
               /\ alert_data'[a].detection_count >= alert_data[a].detection_count
               /\ alert_data'[a].detection_count <= alert_data[a].detection_count + 1
               /\ alert_data'[a].detection_count # alert_data[a].detection_count
                      => a \in ActiveNow
          /\ next_id' # next_id => alert_data'[next_id].detection_count = 1
          /\ \A a \in Issued :
                 threads_started'[a] # threads_started[a] =>
                     alert_data'[a].detection_count
                         = alert_data[a].detection_count + 1
          /\ (\E a \in AlertIds :
                 alert_data'[a].detection_count # alert_data[a].detection_count) =>
                     /\ UNCHANGED <<now, timer>>
                     /\ active_alerts \subseteq active_alerts'
                     /\ \A b \in AlertIds :
                            /\ alert_data'[b].cancelled = alert_data[b].cancelled
                            /\ thread'[b] \in {thread[b], "started"}]_vars

\* an alert that took three frames, was notified and cancelled, and whose
\* timer check has run
C15_Witness ==
    \E a \in active_alerts :
        /\ alert_data[a].detection_count = 3
        /\ alert_data[a].cancelled
        /\ timer[a].state = "fired"

\* C16: cancelled, once true, stays true, and it becomes true only in a step
\* of cancel_alert for that alert; alert_sent, once true, stays true, also
\* through the end of a dispatch, whatever the two channels returned: an
\* alert whose dispatch thread has ended is still marked alert_sent.
C16_FlagsMonotone ==
    /\ [](\A a \in AlertIds :
            thread[a] \in {"dispatched", "failed"} => alert_data[a].alert_sent)
    /\ [][\A a \in AlertIds :
            /\ alert_data[a].cancelled => alert_data'[a].cancelled
            /\ alert_data[a].alert_sent => alert_data'[a].alert_sent
            /\ (~alert_data[a].cancelled /\ alert_data'[a].cancelled) =>
                   cancel_alert(a) /\ a \in active_alerts]_vars

\* a cancelled alert whose dispatch ended with nothing sent: both flags set
C16_Witness ==
    \E a \in active_alerts :
        /\ thread[a] = "failed"
        /\ alert_data[a].alert_sent
        /\ alert_data[a].cancelled

\* C17: for every list of boxes, the classifier reports a crash exactly when
\* some box has class 0 and a confidence strictly above
\* CRASH_CONF_THRESHOLD; with n such boxes the severity is severe for n >= 2,
\* moderate for n = 1 and none for n = 0, never minor; and a frame without
\* such a box creates no alert and changes none.
C17_Classify ==
    /\ [](frame_result # NoResult =>
            LET n == Cardinality({i \in 1..Len(boxes) :
                                     /\ boxes[i].cls = 0
                                     /\ boxes[i].conf > CRASH_CONF_THRESHOLD})
            IN /\ frame_result.crash_detected = (n >= 1)
               /\ frame_result.severity =
                      IF n >= 2 THEN "severe"
                      ELSE IF n = 1 THEN "moderate" ELSE "none"
               /\ frame_result.severity # "minor")
    /\ [][(next_id' # next_id \/ active_alerts' # active_alerts
               \/ alert_data' # alert_data) =>
             /\ \E i \in 1..Len(boxes) :
                    boxes[i].cls = 0 /\ boxes[i].conf > CRASH_CONF_THRESHOLD
             /\ next_id' # next_id =>
                    /\ alert_data'[next_id].severity = frame_result.severity
                    /\ frame_result.severity \in {"moderate", "severe"}]_vars

\* a frame of three boxes, one above the threshold, one of class 0 at the
\* threshold and one of another class, was classified moderate and created
\* an alert
C17_Witness ==
    /\ Len(boxes) = 3
    /\ \E i, j, k \in 1..3 :
           /\ boxes[i] = [cls |-> 0, conf |-> CRASH_CONF_THRESHOLD + 1]
           /\ boxes[j] = [cls |-> 0, conf |-> CRASH_CONF_THRESHOLD]
           /\ boxes[k] = [cls |-> 1, conf |-> CRASH_CONF_THRESHOLD + 1]
    /\ frame_result = [crash_detected |-> TRUE, severity |-> "moderate"]
    /\ 1 \in active_alerts
    /\ alert_data[1].severity = "moderate"

\* C18 as stated: in every dispatch both channels are attempted and neither
\* lets a failure out: whatever a dispatch step got back from line 277 and
\* line 278, it was a return value of the channel function, not an
\* exception.
C18_BothChannelsAttempted ==
    [][\A a \in AlertIds, sms_sent \in SmsResults, email_sent \in EmailResults :
          trigger_emergency_alerts(a, sms_sent, email_sent) =>
              sms_sent \in {"True", "False"} /\ email_sent \in {"True", "False"}]_vars

\* C19 as stated: the step in which the timer check of an alert ends leaves
\* the registry and every alert as they were, and what it records is decided
\* by the registry as that step finds it: cancelled_by_user for an alert
\* that is present and cancelled, confirmed_incident for one that is present
\* and not cancelled, not_found for an absent one; and what was recorded
\* never changes afterwards.
C19_TimerObservational ==
    [][\A a \in AlertIds :
          /\ (timer[a].state # "fired" /\ timer'[a].state = "fired") =>
                 /\ UNCHANGED <<active_alerts, alert_data>>
                 /\ timer'[a].outcome =
                        IF a \notin active_alerts THEN "not_found"
                        ELSE IF alert_data[a].cancelled THEN "cancelled_by_user"
                        ELSE "confirmed_incident"
          /\ timer[a].state = "fired" => timer'[a] = timer[a]]_vars

\* C20: from the step that starts the dispatch thread of an alert until the
\* thread ends, no step (a cancel request, a further frame, a sweep) changes
\* what the thread reads from the alert and puts in its messages, so what is
\* sent is what the alert held at the instant of escalation; and a started
\* dispatch is stopped by nothing: it stays in flight until its own step,
\* which is possible in every state, cancelled and swept alerts included.
C20_DispatchSnapshot ==
    /\ [](\A a \in AlertIds :
            thread[a] = "started" =>
                /\ a \in Issued
                /\ ENABLED (\E sms_sent \in SmsResults, email_sent \in EmailResults :
                               trigger_emergency_alerts(a, sms_sent, email_sent)))
    /\ [][\A a \in AlertIds :
            thread[a] = "started" =>
                /\ DispatchMessage(a, alert_data'[a]) = DispatchMessage(a, alert_data[a])
                /\ thread'[a] # "started" =>
                       \E sms_sent \in SmsResults, email_sent \in EmailResults :
                           trigger_emergency_alerts(a, sms_sent, email_sent)]_vars

\* a dispatch that ended at or after the end of its alert's window, for an
\* alert that took a further frame after its escalation, was cancelled, and
\* whose message says SEVERE
C20_Witness ==
    \E a \in Issued :
        /\ thread[a] = "dispatched"
        /\ timer[a].state = "scheduled"
        /\ timer[a].due >= Window(a) + MAX_ALERT_PENDING_TIME_SECONDS
        /\ alert_data[a].cancelled
        /\ alert_data[a].detection_count > min_required
        /\ min_required >= 1
        /\ DispatchMessage(a, alert_data[a]).severity = "SEVERE"

\* C21: with a threshold of 1 or more, in every state every alert in the
\* registry is marked alert_sent exactly when its detection_count has
\* reached the threshold: none is notified below it, none sits at or above
\* it without being notified.
C21_NotifiedIffThreshold ==
    min_required >= 1 =>
        \A a \in active_alerts :
            alert_data[a].alert_sent
                <=> alert_data[a].detection_count >= min_required

\* threshold 1: an alert that was escalated by the frame that created it and
\* took a further frame, beside an older alert that was cancelled
C21_Witness ==
    \E a, b \in active_alerts :
        /\ min_required = 1
        /\ a < b
        /\ alert_data[a].cancelled /\ alert_data[a].alert_sent
        /\ alert_data[b].alert_sent
        /\ alert_data[b].detection_count = 2

\* C22: an alert that was cancelled is in the registry in every later state:
\* no sweep, incident frame, cancel request or timer check removes it.  So a
\* status query for it is never answered 404, a further cancel request is
\* always answered "already_cancelled", and the set of cancelled alerts in
\* the registry only grows.
C22_CancelledStays ==
    /\ [](\A a \in AlertIds :
            alert_data[a].cancelled =>
                /\ a \in active_alerts
                /\ StatusResponse(active_alerts, alert_data, a, now).status = 200
                /\ StatusResponse(active_alerts, alert_data, a, now).cancelled
                /\ CancelResponse(active_alerts, alert_data, a) =
                       [status |-> 200, detail |-> "already_cancelled"]
                /\ a \notin AlertsToRemove(active_alerts, alert_data, now))
    /\ [][{a \in active_alerts : alert_data[a].cancelled}
              \subseteq {a \in active_alerts' : alert_data'[a].cancelled}]_vars

\* two alerts cancelled after their windows had elapsed, one of them
\* notified with its timer check run, both still in the registry at the end
\* of the horizon
C22_Witness ==
    \E a, b \in active_alerts :
        /\ a # b
        /\ alert_data[a].cancelled /\ ~cancelled_in_window[a]
        /\ alert_data[b].cancelled /\ ~cancelled_in_window[b]
        /\ now >= Window(a) /\ now >= Window(b)
        /\ timer[a].state = "fired"

\* C23: the timer of an escalated alert is due no earlier than the end of the
\* alert's window and its check starts no earlier than that.  While the
\* timer is pending, an alert that was not cancelled and whose window has
\* elapsed is among those a no-incident frame removes, a step that removes
\* any alert removes it too, and a removed id never comes back; a check that
\* starts on a removed id records not_found.  confirmed_incident is recorded
\* only for an alert that is still in the registry and not cancelled, that
\* is, when no no-incident frame was processed between the end of the window
\* and the check.
C23_SweepBeforeTimer ==
    /\ [](\A a \in AlertIds :
            /\ timer[a].state = "scheduled" =>
                   /\ a \in Issued
                   /\ alert_data[a].alert_sent
                   /\ timer[a].due >= Window(a)
            /\ (a \in active_alerts /\ alert_data[a].alert_sent
                   /\ ~alert_data[a].cancelled /\ now >= Window(a)) =>
                   a \in AlertsToRemove(active_alerts, alert_data, now))
    /\ [][\A a \in AlertIds :
            /\ (timer[a].state = "scheduled" /\ timer'[a].state # "scheduled") =>
                   /\ now >= Window(a)
                   /\ a \notin active_alerts =>
                          /\ timer'[a].state = "fired"
                          /\ timer'[a].outcome = "not_found"
            /\ (a \in active_alerts /\ alert_data[a].alert_sent
                   /\ ~alert_data[a].cancelled /\ now >= Window(a)
                   /\ active_alerts \ active_alerts' # {}) =>
                   a \notin active_alerts'
            /\ (a \in Issued /\ a \notin active_alerts) => a \notin active_alerts'
            /\ (timer[a].outcome # "confirmed_incident"
                   /\ timer'[a].outcome = "confirmed_incident") =>
                   /\ a \in active_alerts /\ a \in active_alerts'
                   /\ ~alert_data[a].cancelled
                   /\ ~cancel_not_found[a]
                   /\ now >= Window(a)]_vars

\* an escalated alert that was never cancelled, removed by a no-incident
\* frame after its window and before its timer check, which recorded
\* not_found
C23_Witness ==
    \E a \in Issued :
        /\ alert_data[a].alert_sent
        /\ ~alert_data[a].cancelled
        /\ thread[a] = "dispatched"
        /\ a \notin active_alerts
        /\ timer[a].state = "fired"
        /\ timer[a].outcome = "not_found"
        /\ timer[a].runs = 1
====
